---- MODULE Spec2Model ----
(***************************************************************************)
(* Model of the syslog backend of the bs log forwarder                     *)
(* (log/syslogforwarder.go): sendMessage and its fan-out over the sink     *)
(* channels, the shared buffer pool, the nextNotify timer, and the sink    *)
(* worker with splitParts / writePart / process.                           *)
(*                                                                         *)
(* Bytes are one-character strings; a buffer is a sequence of bytes.       *)
(***************************************************************************)
EXTENDS Integers, Sequences, FiniteSets, TLC

(***************************************************************************)
(* Program constants                                                       *)
(***************************************************************************)
udpMessageDefaultMTU == 1500
udpHeaderSz == 100
\* time.Minute, in ticks of the model's clock (one tick is 30 s)
Minute == 2
\* containerIDTrimSize
containerIDTrimSize == 12

(***************************************************************************)
(* Bounds of the model                                                     *)
(***************************************************************************)
\* longest record content, in bytes
MaxContent == 4
\* longest application name, in bytes
MaxAppName == 2
\* longest LOG_SYSLOG_MESSAGE_EXTRA_END text, in bytes
MaxExtraEnd == 1
\* largest messageLimit above the shortest header the interface MTUs give
MaxSlack == 4
\* number of sendMessage calls in one behaviour
MaxRecords == 2
\* writes of one message the connection's observer records
MaxWrites == 6

NoMsg == [id |-> 0, buffer |-> <<>>, headerIdx |-> 0, contentIdx |-> 0, seq |-> 0]

\* a nil error
NoError == [text |-> "", url |-> 0, cause |-> ""]

\* the websocket forwarder before its first dial: no session, no ping sent,
\* nothing logged
WsIdle ==
    [state    |-> "Disconnected",
     stop     |-> FALSE,
     cause    |-> "none",
     ping     |-> 0,
     pong     |-> 0,
     pings    |-> 0,
     now      |-> 0,
     pingAt   |-> 0,
     lines    |-> <<>>,
     sends    |-> 0,
     queue    |-> <<>>,
     dialErrs |-> 0,
     expired  |-> {},
     answered |-> {}]

\* package config before any of its functions was called
ConfIdle ==
    [call        |-> "none",
     environ     |-> <<>>,
     envs        |-> <<>>,
     intDefault  |-> 0,
     strDefault  |-> <<>>,
     intResult   |-> 0,
     strResult   |-> <<>>,
     warns       |-> <<>>,
     LogBackends |-> <<>>,
     isNil       |-> TRUE]

Min(a, b) == IF a < b THEN a ELSE b

Alphabet == <<"a", "b", "c", "d", "e", "f", "g", "h">>

\* the text of n bytes used for contents and names
Text(n) == SubSeq(Alphabet, 1, n)

(***************************************************************************)
(* Configuration read by initialize()                                      *)
(***************************************************************************)
\* the length of the shortest header rendered: "<30>" + stamp + " c1 a[p]: "
ShortestHeader == 4 + 15 + 10

\* net.InterfaceByName(mtuInterface): an error, or the MTU of the interface
IfaceReadings ==
    {[err |-> TRUE, MTU |-> 0], [err |-> FALSE, MTU |-> 0], [err |-> FALSE, MTU |-> 68],
     [err |-> FALSE, MTU |-> 100]}
      \cup {[err |-> FALSE, MTU |-> udpHeaderSz + ShortestHeader + k] : k \in 0..MaxSlack}

\* mtu := udpMessageDefaultMTU; if err == nil && iface.MTU > 0 { mtu = iface.MTU }
ReadMTU(iface) ==
    IF ~iface.err /\ iface.MTU > 0 THEN iface.MTU ELSE udpMessageDefaultMTU


(***************************************************************************)
(* Rendering of a record into a syslog line (sendMessage, first half)      *)
(***************************************************************************)
Digit(n) == <<"0", "1", "2", "3", "4", "5", "6", "7", "8", "9">>[n + 1]

\* parts.ts.In(location).Format(time.Stamp): "Jan _2 15:04:05", always 15
\* bytes; the instant is 2015-06-05T16:13:47Z and the location is given by
\* its offset from UTC in hours
Stamp(utcOffset) ==
    LET hour == 16 + utcOffset
    IN  <<"J", "u", "n", " ", " ", "5", " ", Digit(hour \div 10), Digit(hour % 10),
          ":", "1", "3", ":", "4", "7">>

\* contID := parts.container; if len(contID) > containerIDTrimSize { trim }
TrimContainer(container) ==
    IF Len(container) > containerIDTrimSize
    THEN SubSeq(container, 1, containerIDTrimSize)
    ELSE container

\* the bytes appended up to headerIdx
RenderHeader(parts, cfg) ==
    <<"<">> \o parts.priority \o <<">">> \o Stamp(cfg.utcOffset) \o <<" ">>
      \o TrimContainer(parts.container) \o <<" ">> \o parts.appName \o <<"[">>
      \o parts.processName \o <<"]", ":", " ">> \o cfg.syslogExtraStart

\* the bytes appended after contentIdx
RenderTrailer(cfg) == cfg.syslogExtraEnd \o <<"\n">>

\* a rendering that takes contentIdx after the suffix
RenderSuffixInContent(parts, cfg) ==
    LET header == RenderHeader(parts, cfg)
    IN  [buffer     |-> header \o parts.content \o RenderTrailer(cfg),
         headerIdx  |-> Len(header),
         contentIdx |-> Len(header) + Len(parts.content) + Len(cfg.syslogExtraEnd)]

\* buffer, headerIdx and contentIdx as sendMessage computes them
Render(parts, cfg) ==
    LET header == RenderHeader(parts, cfg)
    IN  [buffer     |-> header \o parts.content \o RenderTrailer(cfg),
         headerIdx  |-> Len(header),
         contentIdx |-> Len(header) + Len(parts.content)]

\* a record with its resolved identity
Parts(appLen, contentLen) ==
    [priority    |-> <<"3", "0">>,
     container   |-> <<"c", "1">>,
     appName     |-> Text(appLen),
     processName |-> <<"p">>,
     content     |-> Text(contentLen)]

\* what initialize() leaves in the backend: location and the two extras
Config(extraEndLen) ==
    [utcOffset        |-> -3,
     syslogExtraStart |-> <<>>,
     syslogExtraEnd   |-> IF extraEndLen = 0 THEN <<>> ELSE <<" ">> \o Text(extraEndLen)]

(***************************************************************************)
(* bufferPool (sync.Pool of byte buffers), by buffer identity              *)
(*   "new"  never allocated     "out"  checked out, held by some goroutine *)
(*   "pool" returned by Put     "gone" dropped by its holder without Put   *)
(***************************************************************************)
BufIds == 1..(2 * MaxRecords + 2)

\* the buffer of lowest identity among those in state st, if any
Least(pl, st) ==
    IF \E b \in BufIds : pl[b] = st
    THEN {CHOOSE b \in BufIds : pl[b] = st /\ \A c \in BufIds : pl[c] = st => b <= c}
    ELSE {}

\* Get(): a pooled buffer, or a fresh one from New (pooled buffers are
\* interchangeable, and so are fresh ones: the lowest identity stands for all)
GetChoices(pl) == Least(pl, "pool") \cup Least(pl, "new")

PoolGet(pl, b) == [pl EXCEPT ![b] = "out"]

PoolPut(pl, b) == [pl EXCEPT ![b] = "pool"]

\* a buffer whose holder lets go of it without Put
PoolForget(pl, b) == [pl EXCEPT ![b] = "gone"]

(***************************************************************************)
(* State                                                                   *)
(***************************************************************************)
VARIABLES
    mtu,            \* syslogForwarder.mtu
    backend,        \* syslogLocation, syslogExtraStart, syslogExtraEnd
    url,            \* per sink: url.Scheme
    bufferSize,     \* capacity of every sink channel
    messageLimit,   \* per sink: syslogForwarder.messageLimit
    msgChans,       \* per sink: the buffered channel's contents, oldest first
    quitChans,      \* per sink: TRUE once the quit channel is closed
    bufferPool,     \* buffer id -> "new" | "out" | "pool" | "gone"
    doublePut,      \* TRUE once a pooled buffer was Put again
    timerC,         \* values waiting in nextNotify.C (0 or 1)
    timerLeft,      \* ticks until nextNotify expires, -1 when it is not armed
    elapsed,        \* ticks since the last diagnostic, counted up to Minute
    errorLog,       \* lines written by bslog.Errorf: [args, elapsed]
    ppc,            \* per producer: position in sendMessage
    pidx,           \* per producer: loop index i over msgChans
    pmsg,           \* per producer: buffer, headerIdx, contentIdx
    nrec,           \* sendMessage calls still to come
    nsent,          \* per sink: messages put on the channel so far
    wpc,            \* per sink worker: position
    cur,            \* per sink worker: the message being processed, as received
    array,          \* per sink worker: the bytes of cur's underlying array now
    contentOff,     \* per sink worker: start of contentBuf in the buffer
    werr,           \* per sink worker: splitParts returned an error
    wout,           \* per sink worker: how the last writePart for cur went, "none" before it
    written,        \* per sink: buffers handed to conn.Write for cur
    lastWritten,    \* per sink: channel position of the last message written
    conn,           \* per sink: "open" | "closed"
    addresses,      \* forwardAddresses: per address [scheme, parses]
    initPc,         \* initialize(): "loop" | "returned"
    initIdx,        \* initialize(): index of the address the loop is at
    initErr,        \* the error initialize() returned, NoError for nil
    dials,          \* the net.DialTimeout calls made so far: [addr, ok]
    wsf,            \* the websocket forwarder: session, heartbeat and its log lines
    fault,          \* the run-time panic a call of the backend ended in, "none" without one
    conf            \* package config: the last call, its environment and what it returned

vars ==
    <<mtu, backend, url, bufferSize, messageLimit, msgChans, quitChans, bufferPool, doublePut, timerC,
      timerLeft, elapsed, errorLog, ppc, pidx, pmsg, nrec, nsent, wpc, cur, array,
      contentOff, werr, wout, written, lastWritten, conn, addresses, initPc, initIdx, initErr,
      dials, wsf, fault, conf>>

\* what initialize() sets and sendMessage, the workers and stop() leave alone
startVars == <<addresses, initPc, initIdx, initErr, dials>>

configVars == <<mtu, backend, url, bufferSize, startVars, wsf, fault, conf>>

producerVars == <<ppc, pidx, pmsg, nrec, nsent>>

timerVars == <<timerC, timerLeft, errorLog>>

Sinks == DOMAIN url

\* a run-time panic ends the process: nothing runs afterwards
Running == fault = "none" /\ \A s \in Sinks : wpc[s] # "panic"


(***************************************************************************)
(* The sink worker: connect, splitParts, writePart, process, close         *)
(***************************************************************************)
\* connect(): a tcp connection is wrapped and keeps messageLimit as it is;
\* every other scheme gets messageLimit = mtu - udpHeaderSz
connect(scheme, m, limit) == IF scheme = "tcp" THEN limit ELSE m - udpHeaderSz

\* availableSz that forgets the trailer
availableSzNoTrailer(limit, headerLen, trailerLen) == limit - headerLen

\* availableSz := f.messageLimit - (len(headerBuf) + len(trailerBuf))
availableSz(limit, headerLen, trailerLen) == limit - (headerLen + trailerLen)

\* a fast path that is taken only when the message is within the limit
fitsWithinLimit(limit, fullLen) == fullLen <= limit

\* the fast path of splitParts
fits(limit, fullLen) == limit <= 0 \/ fullLen <= limit

\* what writePart can do with a buffer: "deadline" is SetWriteDeadline
\* failing (Write is not called), "error" is Write failing, "short" is
\* Write returning n < len(buf)
WriteOutcomes == {"ok", "deadline", "error", "short"}

\* a writePart that goes on when the deadline cannot be set
writePartErrNoDeadline(o) == o \notin {"ok", "deadline"}

\* a writePart that takes a short write for a success
writePartErrNoShort(o) == o \notin {"ok", "short"}

writePartErr(o) == o # "ok"

writePartWrote(o) == o # "deadline"

\* append(dst[:dstLen], arr[srcOff : srcOff+n]...) within one underlying
\* array that has the capacity: the bytes move as by memmove
appendInPlace(arr, dstLen, srcOff, n) ==
    [i \in 1..Len(arr) |->
        IF dstLen < i /\ i <= dstLen + n THEN arr[srcOff + (i - dstLen)] ELSE arr[i]]

\* the buffer of one fragment: header, the next availableSz bytes of
\* contentBuf, trailer, appended to an empty pooled buffer
fragment(arr, b, off, avail) ==
    SubSeq(arr, 1, b.headerIdx)
      \o SubSeq(arr, off + 1, off + avail)
      \o SubSeq(arr, b.contentIdx + 1, Len(arr))

\* the underlying array after the remainder was built in place on headerBuf
remainderArray(arr, b, off) ==
    LET rem  == b.contentIdx - off
        arr1 == appendInPlace(arr, b.headerIdx, off, rem)
    IN  appendInPlace(arr1, b.headerIdx + rem, b.contentIdx, Len(arr) - b.contentIdx)

\* the observer of the connection keeps the first MaxWrites writes of a message
observe(log, buf) == IF Len(log) < MaxWrites THEN Append(log, buf) ELSE log

\* the effect of one writePart(conn, buf) with outcome o by the worker of
\* sink s, which then moves to position next
WriteStep(s, buf, o, next) ==
    /\ written' = [written EXCEPT ![s] = IF writePartWrote(o) THEN observe(@, buf) ELSE @]
    /\ lastWritten' = [lastWritten EXCEPT ![s] = IF writePartWrote(o) THEN cur[s].seq ELSE @]
    /\ werr' = [werr EXCEPT ![s] = writePartErr(o)]
    /\ wout' = [wout EXCEPT ![s] = o]
    /\ wpc' = [wpc EXCEPT ![s] = IF writePartErr(o) THEN "put" ELSE next]

\* the worker takes the next message off its channel, redialling first
\* when the last write error closed the connection
WorkerRecv(s) ==
    /\ Running
    /\ wpc[s] = "recv"
    /\ msgChans[s] # <<>>
    /\ cur' = [cur EXCEPT ![s] = Head(msgChans[s])]
    /\ array' = [array EXCEPT ![s] = Head(msgChans[s]).buffer]
    /\ msgChans' = [msgChans EXCEPT ![s] = Tail(@)]
    /\ contentOff' = [contentOff EXCEPT ![s] = Head(msgChans[s]).headerIdx]
    /\ written' = [written EXCEPT ![s] = <<>>]
    /\ werr' = [werr EXCEPT ![s] = FALSE]
    /\ wout' = [wout EXCEPT ![s] = "none"]
    /\ conn' = [conn EXCEPT ![s] = "open"]
    /\ messageLimit' = [messageLimit EXCEPT ![s] =
                          IF conn[s] = "closed" THEN connect(url[s], mtu, @) ELSE @]
    /\ wpc' = [wpc EXCEPT ![s] = "split"]
    /\ UNCHANGED <<configVars, quitChans, bufferPool, doublePut, timerVars, elapsed,
                   producerVars, lastWritten>>

\* splitParts, fast path: the message fits or no limit applies
SplitFast(s) ==
    /\ Running
    /\ wpc[s] = "split"
    /\ fits(messageLimit[s], Len(cur[s].buffer))
    /\ \E o \in WriteOutcomes : WriteStep(s, array[s], o, "put")
    /\ UNCHANGED <<configVars, messageLimit, msgChans, quitChans, bufferPool, doublePut,
                   timerVars, elapsed, producerVars, cur, array, contentOff, conn>>

\* splitParts, one iteration of "for contentSz > availableSz"
SplitLoop(s) ==
    LET b     == cur[s]
        avail == availableSz(messageLimit[s], b.headerIdx, Len(b.buffer) - b.contentIdx)
    IN  /\ Running
        /\ wpc[s] = "split"
        /\ ~fits(messageLimit[s], Len(b.buffer))
        /\ b.contentIdx - contentOff[s] > avail
        /\ \E g \in GetChoices(bufferPool) :
             IF avail < 0
             THEN \* contentBuf[:availableSz] is out of range: run-time panic
                  /\ wpc' = [wpc EXCEPT ![s] = "panic"]
                  /\ bufferPool' = PoolGet(bufferPool, g)
                  /\ UNCHANGED <<written, lastWritten, werr, wout, contentOff, doublePut>>
             ELSE /\ \E o \in WriteOutcomes :
                       WriteStep(s, fragment(array[s], b, contentOff[s], avail), o, "split")
                  /\ bufferPool' = PoolPut(PoolGet(bufferPool, g), g)
                  /\ doublePut' = doublePut
                  /\ contentOff' = [contentOff EXCEPT ![s] = IF werr'[s] THEN @ ELSE @ + avail]
        /\ UNCHANGED <<configVars, messageLimit, msgChans, quitChans, timerVars, elapsed,
                       producerVars, cur, array, conn>>

\* splitParts after the loop: the remainder reuses the original buffer
SplitRemainder(s) ==
    LET b     == cur[s]
        avail == availableSz(messageLimit[s], b.headerIdx, Len(b.buffer) - b.contentIdx)
        rem   == b.contentIdx - contentOff[s]
        arr   == remainderArray(array[s], b, contentOff[s])
    IN  /\ Running
        /\ wpc[s] = "split"
        /\ ~fits(messageLimit[s], Len(b.buffer))
        /\ rem <= avail
        /\ IF rem > 0
           THEN /\ \E o \in WriteOutcomes :
                     WriteStep(s, SubSeq(arr, 1, b.headerIdx + rem + Len(b.buffer) - b.contentIdx),
                               o, "put")
                /\ array' = [array EXCEPT ![s] = arr]
           ELSE /\ wpc' = [wpc EXCEPT ![s] = "put"]
                /\ UNCHANGED <<written, lastWritten, werr, wout, array>>
        /\ UNCHANGED <<configVars, messageLimit, msgChans, quitChans, bufferPool, doublePut,
                       timerVars, elapsed, producerVars, cur, contentOff, conn>>

\* close(conn): the write deadline is reset, then the connection is closed
close(c) == "closed"

\* process: f.bufferPool.Put(bufIdx.buffer) and the error goes back to the
\* worker, which closes the connection on an error
ProcessReturn(s) ==
    /\ Running
    /\ wpc[s] = "put"
    /\ bufferPool' = PoolPut(bufferPool, cur[s].id)
    /\ doublePut' = (doublePut \/ bufferPool[cur[s].id] = "pool")
    /\ conn' = [conn EXCEPT ![s] = IF werr[s] THEN close(@) ELSE @]
    /\ cur' = [cur EXCEPT ![s] = NoMsg]
    /\ array' = [array EXCEPT ![s] = <<>>]
    /\ written' = [written EXCEPT ![s] = <<>>]
    /\ werr' = [werr EXCEPT ![s] = FALSE]
    /\ wout' = [wout EXCEPT ![s] = "none"]
    /\ contentOff' = [contentOff EXCEPT ![s] = 0]
    /\ wpc' = [wpc EXCEPT ![s] = "recv"]
    /\ UNCHANGED <<configVars, messageLimit, msgChans, quitChans, timerVars, elapsed,
                   producerVars, lastWritten>>

(***************************************************************************)
(* sendMessage, one goroutine per producer                                 *)
(***************************************************************************)
\* the goroutines calling sendMessage
Producers == {"p1", "p2"}

\* a send that puts the message at the head of the channel
chanSendFront(queue, msg) == <<msg>> \o queue

\* a send that puts the message on the channel twice
chanSendTwice(queue, msg) == Append(Append(queue, msg), msg)

\* ch <- msg on a buffered channel that has room
chanSend(queue, msg) == Append(queue, msg)

\* a plain send in place of the select: it waits for room
selectSendWaits(queue, capacity) == IF Len(queue) < capacity THEN "send" ELSE "wait"

\* a select that keeps one place of the channel free
selectSendSpare(queue, capacity) == IF Len(queue) + 1 < capacity THEN "send" ELSE "default"

\* the outer select: it sends when the channel has room and takes the
\* default case otherwise; it never waits
selectSend(queue, capacity) == IF Len(queue) < capacity THEN "send" ELSE "default"

\* a default case that makes room by discarding the oldest message
onDefaultDropOldest(queue, msg) == Append(Tail(queue), msg)

\* the default case leaves the channel as it is
onDefault(queue, msg) == queue

\* a receive that leaves the value on the channel
chanRecvKeep(n) == n

\* <-b.nextNotify.C takes the value the channel holds
chanRecv(n) == n - 1

\* a diagnostic with one argument
errorfArgsCount == <<1>>

\* the arguments of bslog.Errorf("Dropping log messages to syslog due to
\* full channel buffer."): none
errorfArgs == <<>>

\* a fan-out that hands the rendered buffer itself to every sink
chBufferShared(last, own, pl) == {own}

\* chBuffer: the rendered buffer for the last sink, and for every other
\* sink a buffer from the pool, into which the line is copied
chBufferChoices(last, own, pl) == IF last THEN {own} ELSE GetChoices(pl)

\* the loop "for i, ch := range b.msgChans" moves on, or sendMessage returns
Advance(p) ==
    IF pidx[p] = Len(msgChans)
    THEN /\ ppc' = [ppc EXCEPT ![p] = "idle"]
         /\ pidx' = [pidx EXCEPT ![p] = 0]
         /\ pmsg' = [pmsg EXCEPT ![p] = NoMsg]
    ELSE /\ ppc' = [ppc EXCEPT ![p] = "send"]
         /\ pidx' = [pidx EXCEPT ![p] = @ + 1]
         /\ pmsg' = pmsg

\* the records the producers submit: empty content, and content long
\* enough to be split on a udp sink
Records == {Parts(1, 2)}

\* sendMessage up to the loop, for the record parts: Get a buffer and render
\* the line into it (with no sink configured the call returns before that)
sendMessageBegin(p, parts) ==
    /\ Running
    /\ ppc[p] = "idle"
    /\ nrec > 0
    /\ Len(msgChans) # 0
    /\ \E g \in GetChoices(bufferPool) :
         /\ bufferPool' = PoolGet(bufferPool, g)
         /\ pmsg' = [pmsg EXCEPT ![p] = [id |-> g, seq |-> 0] @@ Render(parts, backend)]
    /\ nrec' = nrec - 1
    /\ pidx' = [pidx EXCEPT ![p] = 1]
    /\ ppc' = [ppc EXCEPT ![p] = "send"]
    /\ UNCHANGED <<mtu, backend, url, bufferSize, startVars, messageLimit, msgChans, quitChans,
                   doublePut, timerVars, elapsed, nsent, wpc, cur, array, contentOff, werr, wout,
                   written, lastWritten, conn, fault, conf>>

\* sendMessage is called with a record whose identity was resolved
SendBegin(p) ==
    /\ \E parts \in Records : sendMessageBegin(p, parts)
    /\ UNCHANGED wsf

\* one pass of the loop body up to the outer select: the last sink gets
\* the rendered buffer, every other sink a pooled copy; the message goes on
\* the channel if there is room, and is let go otherwise
SendToSink(p) ==
    LET i    == pidx[p]
        last == i = Len(msgChans)
        sel  == selectSend(msgChans[i], bufferSize)
    IN  /\ Running
        /\ ppc[p] = "send"
        /\ sel \in {"send", "default"}
        /\ \E g \in chBufferChoices(last, pmsg[p].id, bufferPool) :
             LET chBuffer == [pmsg[p] EXCEPT !.id = g, !.seq = nsent[i] + 1]
                 pool1    == IF g = pmsg[p].id THEN bufferPool ELSE PoolGet(bufferPool, g)
             IN  IF sel = "send"
                 THEN /\ msgChans' = [msgChans EXCEPT ![i] = chanSend(@, chBuffer)]
                      /\ nsent' = [nsent EXCEPT ![i] = @ + 1]
                      /\ bufferPool' = pool1
                      /\ Advance(p)
                 ELSE /\ msgChans' = [msgChans EXCEPT ![i] = onDefault(@, chBuffer)]
                      /\ nsent' = nsent
                      /\ bufferPool' = PoolForget(pool1, g)
                      /\ ppc' = [ppc EXCEPT ![p] = "notify"]
                      /\ UNCHANGED <<pidx, pmsg>>
        /\ UNCHANGED <<configVars, messageLimit, quitChans, doublePut, timerVars, elapsed, nrec,
                       wpc, cur, array, contentOff, werr, wout, written, lastWritten, conn>>

\* the inner select: take the value nextNotify.C holds and log the
\* diagnostic, or fall through
SendNotify(p) ==
    /\ Running
    /\ ppc[p] = "notify"
    /\ IF timerC > 0
       THEN /\ timerC' = chanRecv(timerC)
            /\ errorLog' = Append(errorLog, [args |-> errorfArgs, elapsed |-> elapsed])
            /\ elapsed' = 0
            /\ ppc' = [ppc EXCEPT ![p] = "reset"]
            /\ UNCHANGED <<pidx, pmsg>>
       ELSE /\ Advance(p)
            /\ UNCHANGED <<timerC, errorLog, elapsed>>
    /\ UNCHANGED <<configVars, messageLimit, msgChans, quitChans, bufferPool, doublePut,
                   timerLeft, nrec, nsent, wpc, cur, array, contentOff, werr, wout, written,
                   lastWritten, conn>>

\* b.nextNotify.Reset(time.Minute)
SendReset(p) ==
    /\ Running
    /\ ppc[p] = "reset"
    /\ timerLeft' = Minute
    /\ Advance(p)
    /\ UNCHANGED <<configVars, messageLimit, msgChans, quitChans, bufferPool, doublePut,
                   timerC, elapsed, errorLog, nrec, nsent, wpc, cur, array, contentOff, werr, wout,
                   written, lastWritten, conn>>

(***************************************************************************)
(* The runtime's timer and the clock                                       *)
(***************************************************************************)
\* the armed timer has expired: the runtime sends on C without blocking
\* (C has capacity 1)
TimerFire ==
    /\ Running
    /\ timerLeft = 0
    /\ timerC' = 1
    /\ timerLeft' = -1
    /\ UNCHANGED <<configVars, messageLimit, msgChans, quitChans, bufferPool, doublePut, elapsed,
                   errorLog, producerVars, wpc, cur, array, contentOff, werr, wout, written, lastWritten,
                   conn>>

\* one tick of time passes (an expired timer may be delivered late)
Tick ==
    /\ Running
    /\ elapsed' = Min(elapsed + 1, Minute)
    /\ timerLeft' = IF timerLeft > 0 THEN timerLeft - 1 ELSE timerLeft
    /\ UNCHANGED <<configVars, messageLimit, msgChans, quitChans, bufferPool, doublePut,
                   timerC, errorLog, producerVars, wpc, cur, array, contentOff, werr, wout, written, lastWritten,
                   conn>>

(***************************************************************************)
(* stop() and the worker's way out                                         *)
(***************************************************************************)
\* a loop that stops one short of the last quit channel
closeAllButLast(quit) == [s \in DOMAIN quit |-> s < Len(quit)]

\* for _, ch := range b.quitChans { close(ch) }
closeAll(quit) == [s \in DOMAIN quit |-> TRUE]

\* stop() is called, once, after initialize() has returned
stop ==
    /\ Running
    /\ initPc = "returned"
    /\ \A s \in Sinks : ~quitChans[s]
    /\ quitChans' = closeAll(quitChans)
    /\ UNCHANGED <<configVars, messageLimit, msgChans, bufferPool, doublePut, timerVars, elapsed,
                   producerVars, wpc, cur, array, contentOff, werr, wout, written, lastWritten, conn>>

\* the worker sees its quit channel closed, closes the connection and ends
WorkerQuit(s) ==
    /\ Running
    /\ wpc[s] = "recv"
    /\ quitChans[s]
    /\ wpc' = [wpc EXCEPT ![s] = "done"]
    /\ conn' = [conn EXCEPT ![s] = close(@)]
    /\ UNCHANGED <<configVars, messageLimit, msgChans, quitChans, bufferPool, doublePut,
                   timerVars, elapsed, producerVars, cur, array, contentOff, werr, wout, written,
                   lastWritten>>

(***************************************************************************)
(* The backend after a successful initialize()                             *)
(***************************************************************************)
\* the interface readings and forward addresses of the full model
MainIfaceReadings == {[err |-> FALSE, MTU |-> udpHeaderSz + ShortestHeader + 2]}

\* LOG_SYSLOG_FORWARD_ADDRESSES
ForwardSchemes == {<<"tcp", "udp">>}

\* LOG_SYSLOG_BUFFER_SIZE
BufferSizes == {1, 2}

\* the backend with the forwarders of schemes connected and their workers
\* started, nothing queued, and records calls of sendMessage to come
BackendWith(cfg, iface, schemes, size, records) ==
        /\ mtu = ReadMTU(iface)
        /\ backend = cfg
        /\ url = schemes
        /\ bufferSize = size
        /\ messageLimit = [s \in DOMAIN schemes |-> connect(schemes[s], mtu, 0)]
        /\ msgChans = [s \in DOMAIN schemes |-> <<>>]
        /\ quitChans = [s \in DOMAIN schemes |-> FALSE]
        /\ bufferPool = [b \in BufIds |-> "new"]
        /\ doublePut = FALSE
        /\ timerC = 0
        /\ timerLeft = 0
        /\ elapsed = Minute
        /\ errorLog = <<>>
        /\ ppc = [p \in Producers |-> "idle"]
        /\ pidx = [p \in Producers |-> 0]
        /\ pmsg = [p \in Producers |-> NoMsg]
        /\ nrec = records
        /\ nsent = [s \in DOMAIN schemes |-> 0]
        /\ wpc = [s \in DOMAIN schemes |-> "recv"]
        /\ cur = [s \in DOMAIN schemes |-> NoMsg]
        /\ array = [s \in DOMAIN schemes |-> <<>>]
        /\ contentOff = [s \in DOMAIN schemes |-> 0]
        /\ werr = [s \in DOMAIN schemes |-> FALSE]
        /\ wout = [s \in DOMAIN schemes |-> "none"]
        /\ written = [s \in DOMAIN schemes |-> <<>>]
        /\ lastWritten = [s \in DOMAIN schemes |-> 0]
        /\ conn = [s \in DOMAIN schemes |-> "open"]
        /\ wsf = WsIdle
        /\ fault = "none"
        /\ conf = ConfIdle

\* the same, with neither LOG_SYSLOG_MESSAGE_EXTRA_START nor _END set
Backend(iface, schemes, size, records) == BackendWith(Config(0), iface, schemes, size, records)

\* initialize() has returned nil after dialling every address
Initialized(iface, schemes, size, records) ==
        /\ Backend(iface, schemes, size, records)
        /\ addresses = [s \in DOMAIN schemes |-> [scheme |-> schemes[s], parses |-> TRUE]]
        /\ initPc = "returned"
        /\ initIdx = Len(schemes) + 1
        /\ initErr = NoError
        /\ dials = [s \in DOMAIN schemes |-> [addr |-> s, ok |-> TRUE]]

Init ==
    \E iface \in MainIfaceReadings, schemes \in ForwardSchemes, size \in BufferSizes :
        Initialized(iface, schemes, size, MaxRecords)

Next ==
    \/ \E p \in Producers : SendBegin(p)
    \/ \E p \in Producers : SendToSink(p)
    \/ \E p \in Producers : SendNotify(p)
    \/ \E p \in Producers : SendReset(p)
    \/ TimerFire
    \/ Tick
    \/ stop
    \/ \E s \in Sinks : WorkerRecv(s)
    \/ \E s \in Sinks : SplitFast(s)
    \/ \E s \in Sinks : SplitLoop(s)
    \/ \E s \in Sinks : SplitRemainder(s)
    \/ \E s \in Sinks : ProcessReturn(s)
    \/ \E s \in Sinks : WorkerQuit(s)

Spec == Init /\ [][Next]_vars

(***************************************************************************)
(* The backend with a single forward address, and one more record          *)
(***************************************************************************)
\* LOG_SYSLOG_FORWARD_ADDRESSES with one address
SingleSchemes == {<<"tcp">>, <<"udp">>}

SingleInit ==
    \E iface \in MainIfaceReadings, schemes \in SingleSchemes, size \in BufferSizes :
        Initialized(iface, schemes, size, MaxRecords + 1)

SingleSpec == SingleInit /\ [][Next]_vars

(***************************************************************************)
(* The backend with its two workers scheduled fairly, while the drop       *)
(* notification timer does not fire                                        *)
(***************************************************************************)
\* whatever the worker goroutine of sink s does next
WorkerStep(s) ==
    \/ WorkerRecv(s)
    \/ SplitFast(s)
    \/ SplitLoop(s)
    \/ SplitRemainder(s)
    \/ ProcessReturn(s)
    \/ WorkerQuit(s)

StopNext ==
    \/ \E p \in Producers : SendBegin(p)
    \/ \E p \in Producers : SendToSink(p)
    \/ \E p \in Producers : SendNotify(p)
    \/ stop
    \/ \E s \in Sinks : WorkerRecv(s)
    \/ \E s \in Sinks : SplitFast(s)
    \/ \E s \in Sinks : SplitLoop(s)
    \/ \E s \in Sinks : SplitRemainder(s)
    \/ \E s \in Sinks : ProcessReturn(s)
    \/ \E s \in Sinks : WorkerQuit(s)

\* a goroutine that can run is run in the end
FairSpec == Init /\ [][StopNext]_vars /\ \A s \in {1, 2} : WF_vars(WorkerStep(s))

(***************************************************************************)
(* initialize(): the loop over the forward addresses                       *)
(***************************************************************************)
\* the longest list of forward addresses
MaxAddrs == 3

\* url schemes tried: tcp and udp, two more networks net.Dial knows, and
\* one it does not know
Schemes == {"tcp", "udp", "tcp4", "unix", "xudp"}

\* the networks net.DialTimeout knows, among Schemes
DialKnows(scheme) == scheme \in {"tcp", "udp", "tcp4", "unix"}

\* net.DialTimeout(f.url.Scheme, f.url.Host, forwardConnDialTimeout)
DialOutcomes(scheme) == IF DialKnows(scheme) THEN {"ok", "refused"} ELSE {"unknown network"}

\* LOG_SYSLOG_FORWARD_ADDRESSES: urls of those schemes, and text that
\* url.Parse rejects
AddressKinds ==
    [scheme : Schemes, parses : {TRUE}] \cup {[scheme |-> "", parses |-> FALSE]}

AddressLists == UNION {[1..n -> AddressKinds] : n \in 0..MaxAddrs}

\* fmt.Errorf("unable to parse %q: %s", addr, err)
parseError(a) == [text |-> "unable to parse", url |-> a, cause |-> "parse"]

\* fmt.Errorf("[log forwarder] unable to connect to %q: %s", f.url, err)
connectError(a, cause) ==
    [text |-> "[log forwarder] unable to connect to", url |-> a, cause |-> cause]

\* processMessages hands the error of connect() back as it is
processMessagesErr(err) == err

\* a return that wraps the error
returnErrWrapped(err) == [err EXCEPT !.text = "unable to initialize"]

\* if err != nil { return err }
returnErr(err) == err

\* one pass of "for _, addr := range forwardAddresses": url.Parse, then
\* processMessages, which connects the forwarder and on success starts its
\* worker; the channels of the worker are appended to the backend
InitializeAddress ==
    LET a == addresses[initIdx]
    IN  /\ Running
        /\ initPc = "loop"
        /\ initIdx <= Len(addresses)
        /\ IF ~a.parses
           THEN /\ initErr' = parseError(initIdx)
                /\ initPc' = "returned"
                /\ UNCHANGED <<initIdx, dials, url, messageLimit, msgChans, quitChans, nsent,
                               wpc, cur, array, contentOff, werr, wout, written, lastWritten, conn>>
           ELSE \E d \in DialOutcomes(a.scheme) :
                  /\ dials' = Append(dials, [addr |-> initIdx, ok |-> d = "ok"])
                  /\ IF d # "ok"
                     THEN /\ initErr' = returnErr(processMessagesErr(connectError(initIdx, d)))
                          /\ initPc' = "returned"
                          /\ UNCHANGED <<initIdx, url, messageLimit, msgChans, quitChans, nsent,
                                         wpc, cur, array, contentOff, werr, wout, written,
                                         lastWritten, conn>>
                     ELSE /\ url' = Append(url, a.scheme)
                          /\ messageLimit' = Append(messageLimit, connect(a.scheme, mtu, 0))
                          /\ msgChans' = Append(msgChans, <<>>)
                          /\ quitChans' = Append(quitChans, FALSE)
                          /\ nsent' = Append(nsent, 0)
                          /\ wpc' = Append(wpc, "recv")
                          /\ cur' = Append(cur, NoMsg)
                          /\ array' = Append(array, <<>>)
                          /\ contentOff' = Append(contentOff, 0)
                          /\ werr' = Append(werr, FALSE)
                          /\ wout' = Append(wout, "none")
                          /\ written' = Append(written, <<>>)
                          /\ lastWritten' = Append(lastWritten, 0)
                          /\ conn' = Append(conn, "open")
                          /\ initIdx' = initIdx + 1
                          /\ UNCHANGED <<initPc, initErr>>
        /\ UNCHANGED <<mtu, backend, bufferSize, addresses, bufferPool, doublePut, timerVars,
                       elapsed, ppc, pidx, pmsg, nrec, wsf, fault, conf>>

\* the loop is over (or there was no address at all): return nil
InitializeReturn ==
    /\ Running
    /\ initPc = "loop"
    /\ initIdx > Len(addresses)
    /\ initPc' = "returned"
    /\ initErr' = NoError
    /\ UNCHANGED <<mtu, backend, url, bufferSize, addresses, initIdx, dials, messageLimit,
                   msgChans, quitChans, bufferPool, doublePut, timerVars, elapsed,
                   producerVars, wpc, cur, array, contentOff, werr, wout, written, lastWritten, conn,
                   wsf, fault, conf>>

\* initialize() is entered with any list of forward addresses
StartInit ==
    \E iface \in MainIfaceReadings, list \in AddressLists, size \in BufferSizes :
        /\ Backend(iface, <<>>, size, 0)
        /\ addresses = list
        /\ initPc = "loop"
        /\ initIdx = 1
        /\ initErr = NoError
        /\ dials = <<>>

StartNext ==
    \/ InitializeAddress
    \/ InitializeReturn
    \/ stop
    \/ \E s \in Sinks : WorkerQuit(s)

StartSpec == StartInit /\ [][StartNext]_vars

(***************************************************************************)
(* Handle: a parsed record is enriched and handed to the backends          *)
(***************************************************************************)
\* a parsed record and what the identity resolver has for its container id:
\* "ok", "error" (the runtime call failed) or "noenv" (the container has no
\* TSURU_APPNAME or TSURU_PROCESSNAME); a record that is not enriched has no
\* application and process name
Arrival(container, lookup) ==
    [parts  |-> IF container # <<>> /\ lookup = "ok"
                THEN [Parts(1, 2) EXCEPT !.container = container]
                ELSE [Parts(0, 2) EXCEPT !.container = container, !.processName = <<>>],
     lookup |-> lookup]

\* the records that arrive: of a known container, with a tag that is not
\* docker/<id>, of a container the runtime fails on, of a container without
\* the two variables
Arrivals ==
    {Arrival(<<"c", "1">>, "ok"), Arrival(<<>>, "ok"), Arrival(<<"c", "2">>, "error"),
     Arrival(<<"c", "3">>, "noenv")}

\* a Handle that forwards whatever the runtime returned without an error
forwardsWithoutEnv(rec) == Len(rec.parts.container) # 0 /\ rec.lookup # "error"

\* Handle goes on to the backends only with a container id and an identity
forwards(rec) == Len(rec.parts.container) # 0 /\ rec.lookup = "ok"

\* Handle: a record without identity is discarded; any other is handed to
\* the websocket backend with its container id and to sendMessage
Handle(p) ==
    \E rec \in Arrivals :
        IF forwards(rec)
        THEN /\ sendMessageBegin(p, rec.parts)
             /\ wsf' = [wsf EXCEPT !.queue = Append(@, rec.parts.container)]
        ELSE /\ Running
             /\ ppc[p] = "idle"
             /\ nrec > 0
             /\ nrec' = nrec - 1
             /\ UNCHANGED <<configVars, messageLimit, msgChans, quitChans, bufferPool, doublePut,
                            timerVars, elapsed, ppc, pidx, pmsg, nsent, wpc, cur, array,
                            contentOff, werr, wout, written, lastWritten, conn>>

HandleNext ==
    \/ \E p \in Producers : Handle(p)
    \/ \E p \in Producers : SendToSink(p)
    \/ \E p \in Producers : SendNotify(p)
    \/ \E p \in Producers : SendReset(p)
    \/ TimerFire
    \/ \E s \in Sinks : WorkerRecv(s)

HandleSpec == Init /\ [][HandleNext]_vars

(***************************************************************************)
(* sendMessage with every record and every prefix and suffix               *)
(***************************************************************************)
\* LOG_SYSLOG_MESSAGE_EXTRA_START and _END: unset, or a text
ConfigExtras(startLen, endLen) ==
    [Config(endLen) EXCEPT
        !.syslogExtraStart = IF startLen = 0 THEN <<>> ELSE Text(startLen) \o <<" ">>]

\* records of every content and application name length, empty content included
AnyRecords == {Parts(appLen, contentLen) : appLen \in 1..MaxAppName, contentLen \in 0..MaxContent}

\* sendMessage is called with any record
SendBeginAny(p) ==
    /\ \E parts \in AnyRecords : sendMessageBegin(p, parts)
    /\ UNCHANGED wsf

RenderInit ==
    \E iface \in MainIfaceReadings, schemes \in ForwardSchemes, size \in BufferSizes,
       startLen \in 0..1, endLen \in 0..MaxExtraEnd :
        /\ BackendWith(ConfigExtras(startLen, endLen), iface, schemes, size, MaxRecords)
        /\ addresses = [s \in DOMAIN schemes |-> [scheme |-> schemes[s], parses |-> TRUE]]
        /\ initPc = "returned"
        /\ initIdx = Len(schemes) + 1
        /\ initErr = NoError
        /\ dials = [s \in DOMAIN schemes |-> [addr |-> s, ok |-> TRUE]]

RenderNext ==
    \/ \E p \in Producers : SendBeginAny(p)
    \/ \E p \in Producers : SendToSink(p)
    \/ \E p \in Producers : SendNotify(p)
    \/ \E p \in Producers : SendReset(p)
    \/ TimerFire

RenderSpec == RenderInit /\ [][RenderNext]_vars

(***************************************************************************)
(* initialize, sendMessage and stop called in any order                    *)
(***************************************************************************)
\* the forward addresses of the calls model: none, one or two, of schemes
\* that dial or not, or unparsable
CallLists ==
    {list \in AddressLists :
        /\ Len(list) <= 2
        /\ \A i \in DOMAIN list : list[i].scheme \in {"tcp", "udp", "xudp", ""}}

\* initialize() is not running: it has returned, or it was not called yet
NotInitializing == initPc = "returned" \/ (initIdx = 1 /\ dials = <<>>)

\* sendMessage with no channel in b.msgChans: lenSyslogs == 0, return
SendNoSinks(p) ==
    /\ Running
    /\ NotInitializing
    /\ ppc[p] = "idle"
    /\ nrec > 0
    /\ Len(msgChans) = 0
    /\ nrec' = nrec - 1
    /\ UNCHANGED <<configVars, messageLimit, msgChans, quitChans, bufferPool, doublePut,
                   timerVars, elapsed, ppc, pidx, pmsg, nsent, wpc, cur, array, contentOff,
                   werr, wout, written, lastWritten, conn>>

\* sendMessage is called after initialize() has returned
SendBeginAfterInit(p) == initPc = "returned" /\ SendBegin(p)

\* the timer initialize() made once it had found a forward address
TimerFireAfterInit == initPc = "returned" /\ Len(addresses) # 0 /\ TimerFire

\* stop() is called again: close(ch) of a closed channel is a run-time panic
stopAgain ==
    /\ Running
    /\ initPc = "returned"
    /\ \E s \in Sinks : quitChans[s]
    /\ fault' = "close of closed channel"
    /\ UNCHANGED <<mtu, backend, url, bufferSize, startVars, wsf, conf, messageLimit, msgChans,
                   quitChans, bufferPool, doublePut, timerVars, elapsed, producerVars, wpc, cur,
                   array, contentOff, werr, wout, written, lastWritten, conn>>

CallsInit ==
    \E iface \in MainIfaceReadings, list \in CallLists, size \in BufferSizes :
        /\ Backend(iface, <<>>, size, MaxRecords)
        /\ addresses = list
        /\ initPc = "loop"
        /\ initIdx = 1
        /\ initErr = NoError
        /\ dials = <<>>

CallsNext ==
    \/ InitializeAddress
    \/ InitializeReturn
    \/ \E p \in Producers : SendNoSinks(p)
    \/ \E p \in Producers : SendBeginAfterInit(p)
    \/ \E p \in Producers : SendToSink(p)
    \/ \E p \in Producers : SendNotify(p)
    \/ \E p \in Producers : SendReset(p)
    \/ TimerFireAfterInit
    \/ stop
    \/ stopAgain
    \/ \E s \in Sinks : WorkerQuit(s)

CallsSpec == CallsInit /\ [][CallsNext]_vars

(***************************************************************************)
(* The websocket forwarder: one session to the platform, its heartbeat     *)
(***************************************************************************)
\* pings one run of the heartbeat sends, every one with a payload of its own
MaxPings == 3

\* records the forwarder sends to the platform
MaxWsSends == 2

\* dials that fail before the model lets the next one through
MaxDialErrs == 1

\* everything but the websocket forwarder
forwarderVars ==
    <<mtu, backend, url, bufferSize, startVars, messageLimit, msgChans, quitChans, bufferPool,
      doublePut, timerVars, elapsed, producerVars, wpc, cur, array, contentOff, werr, wout,
      written, lastWritten, conn, fault>>

syslogVars == <<forwarderVars, conf>>

\* a pong handler that keeps the first answer it saw
recordPongFirst(old, payload, ping) == IF payload = ping /\ old = 0 THEN payload ELSE old

\* the pong handler: a pong with the payload of the ping that is out is the
\* answer to it, any other pong is not
recordPong(old, payload, ping) == IF payload = ping THEN payload ELSE old

\* a heartbeat that takes any pong for the answer
heartbeatDeadUnlessAnyPong(ping, pong) == ping # 0 /\ pong = 0

\* the heartbeat at the end of an interval: a ping is out and the pong with
\* its payload has not come
heartbeatDead(ping, pong) == ping # 0 /\ pong # ping

\* a closed session that dials at once
afterCloseDialing(w) == [w EXCEPT !.state = "Dialing"]

\* the end of Closing: the session is gone
afterClose(w) == [w EXCEPT !.state = "Disconnected"]

\* no session and no stop requested: dial (at start, and again on the next
\* record or heartbeat tick after a session ended)
WsDial ==
    /\ wsf.state = "Disconnected"
    /\ ~wsf.stop
    /\ wsf' = [wsf EXCEPT !.state = "Dialing"]
    /\ UNCHANGED syslogVars

\* the dial ends: with a session, whose heartbeat starts with no ping out,
\* or with an error that is logged, the dial being made again
WsDialDone ==
    /\ wsf.state = "Dialing"
    /\ \E ok \in BOOLEAN :
         IF ok
         THEN wsf' = [wsf EXCEPT !.state = "Connected", !.ping = 0, !.pong = 0, !.cause = "none"]
         ELSE /\ wsf.dialErrs < MaxDialErrs
              /\ wsf' = [wsf EXCEPT !.dialErrs = @ + 1]
    /\ UNCHANGED syslogVars

\* one ping interval ends on a session: a ping without its pong ends the
\* session with one line in the log, otherwise the next ping goes out
WsTick ==
    /\ wsf.state = "Connected"
    /\ LET over == IF wsf.ping = 0 THEN wsf.expired ELSE wsf.expired \cup {wsf.ping}
       IN  IF heartbeatDead(wsf.ping, wsf.pong)
           THEN wsf' = [wsf EXCEPT !.state = "Closing", !.cause = "heartbeat",
                                 !.lines = Append(@, wsf.now + 1 - wsf.pingAt),
                                 !.now = @ + 1, !.expired = over]
           ELSE /\ wsf.pings < MaxPings
                /\ wsf' = [wsf EXCEPT !.pings = @ + 1, !.ping = wsf.pings + 1,
                                    !.pingAt = wsf.now + 1, !.now = @ + 1, !.expired = over]
    /\ UNCHANGED syslogVars

\* a pong frame arrives on the session: the peer echoes the ping that is
\* out, or sends the payload of an earlier ping
WsPong ==
    /\ wsf.state = "Connected"
    /\ wsf.ping # 0
    /\ \E payload \in 1..wsf.ping :
         wsf' = [wsf EXCEPT !.pong = recordPong(@, payload, wsf.ping),
                          !.answered = IF payload = wsf.ping THEN @ \cup {payload} ELSE @]
    /\ UNCHANGED syslogVars

\* a record is written to the session as one JSON line; a failed write ends
\* the session
WsSend ==
    /\ wsf.state = "Connected"
    /\ wsf.sends < MaxWsSends
    /\ \E ok \in BOOLEAN :
         wsf' = IF ok
               THEN [wsf EXCEPT !.sends = @ + 1]
               ELSE [wsf EXCEPT !.sends = @ + 1, !.state = "Closing", !.cause = "send"]
    /\ UNCHANGED syslogVars

\* the supervisor asks the forwarder to stop
WsStop ==
    /\ ~wsf.stop
    /\ wsf' = [wsf EXCEPT !.stop = TRUE]
    /\ UNCHANGED syslogVars

\* the forwarder finds the stop request while it has a session
WsQuit ==
    /\ wsf.state = "Connected"
    /\ wsf.stop
    /\ wsf' = [wsf EXCEPT !.state = "Closing", !.cause = "stop"]
    /\ UNCHANGED syslogVars

\* the session's connection is closed
WsClose ==
    /\ wsf.state = "Closing"
    /\ wsf' = afterClose(wsf)
    /\ UNCHANGED syslogVars

\* the forwarder alone, with no syslog sink configured
WsInit ==
    \E iface \in MainIfaceReadings : Initialized(iface, <<>>, 1, 0)

WsNext ==
    \/ WsDial
    \/ WsDialDone
    \/ WsTick
    \/ WsPong
    \/ WsSend
    \/ WsStop
    \/ WsQuit
    \/ WsClose

WsSpec == WsInit /\ [][WsNext]_vars

\* the forwarder's own steps are taken sooner or later: a closing session
\* is closed, a lost session is dialled again within a heartbeat interval,
\* a stop request is seen
WsFairSpec ==
    WsSpec /\ WF_vars(WsDial) /\ WF_vars(WsQuit) /\ WF_vars(WsClose)

(***************************************************************************)
(* package config: environment lookups with fallback names, LoadConfig     *)
(***************************************************************************)
\* config.DefaultBufferSize
DefaultBufferSize == 1000000

\* names listed in one call
MaxNames == 3

\* the variables of the process environment that are looked up
EnvNames == <<"LOG_SYSLOG_BUFFER_SIZE", "LOG_BUFFER_SIZE", "LOG_BACKENDS">>

\* values as strings of bytes; an unset variable reads as the empty string
EnvValues ==
    {<<>>, <<"7">>, <<"1", "2">>, <<"-", "3">>, <<"x">>, <<"7", "x">>, <<",">>,
     <<"x", ",", "y">>}

\* os.Getenv for every name
Environs == [1..Len(EnvNames) -> EnvValues]

\* envs ...string: any names in any order, repeated or none
NameLists == UNION {[1..n -> 1..Len(EnvNames)] : n \in 0..MaxNames}

IsDigit(c) == \E n \in 0..9 : Digit(n) = c

DigitVal(c) == CHOOSE n \in 0..9 : Digit(n) = c

\* the number the decimal digits ds stand for
RECURSIVE Decimal(_)
Decimal(ds) ==
    IF ds = <<>> THEN 0 ELSE 10 * Decimal(SubSeq(ds, 1, Len(ds) - 1)) + DigitVal(ds[Len(ds)])

\* the value of a conversion that failed: nil
Nil == [ok |-> FALSE, int |-> 0, str |-> <<>>]

\* strconv.Atoi(v): an optional sign and at least one digit, nothing else
Atoi(v) ==
    LET signed == v # <<>> /\ v[1] \in {"-", "+"}
        ds     == IF signed THEN Tail(v) ELSE v
    IN  IF ds # <<>> /\ \A i \in DOMAIN ds : IsDigit(ds[i])
        THEN [ok |-> TRUE, int |-> IF signed /\ v[1] = "-" THEN 0 - Decimal(ds) ELSE Decimal(ds),
              str |-> <<>>]
        ELSE Nil

\* a string conversion that lets the empty string through
convertStringAny(v) == [ok |-> TRUE, int |-> 0, str |-> v]

\* the convert function of StringEnvOrDefault: nil for "", v otherwise
convertString(v) == IF v = <<>> THEN Nil ELSE [ok |-> TRUE, int |-> 0, str |-> v]

\* the convert function of IntEnvOrDefault: nil unless Atoi succeeds
convertInt(v) == Atoi(v)

convert(kind, v) == IF kind = "int" THEN convertInt(v) ELSE convertString(v)

\* a lookup that warns whatever name it found
warnsDeprecatedAlways(i) == TRUE

\* if i > 0 { bslog.Warnf("The environment variable %s is deprecated...") }
warnsDeprecated(i) == i > 0

\* the loop of envOrDefault from the name at position i (counted from 1):
\* the position of the name it returns at, 0 when it falls out of the loop
RECURSIVE envLoop(_, _, _, _)
envLoop(kind, envs, environ, i) ==
    IF i > Len(envs) THEN 0
    ELSE IF convert(kind, environ[envs[i]]).ok THEN i
    ELSE envLoop(kind, envs, environ, i + 1)

\* envOrDefault: the value returned and the warnings logged; isZero says
\* that defaultValue is the zero value of its type
envOrDefault(kind, defaultValue, isZero, envs, environ) ==
    LET i == envLoop(kind, envs, environ, 1)
    IN  IF i # 0
        THEN [val   |-> convert(kind, environ[envs[i]]),
              warns |-> IF warnsDeprecated(i - 1)
                        THEN <<[kind |-> "deprecated", env |-> envs[i], use |-> envs[1]]>>
                        ELSE <<>>]
        ELSE [val   |-> defaultValue,
              warns |-> IF isZero THEN <<>>
                        ELSE <<[kind |-> "invalid", env |-> 0, use |-> 0]>>]

\* strings.Split(s, ","): the pieces between the commas, in order
RECURSIVE Split(_)
Split(str) ==
    IF \A i \in DOMAIN str : str[i] # ","
    THEN <<str>>
    ELSE LET k == CHOOSE i \in DOMAIN str : str[i] = "," /\ \A j \in 1..(i - 1) : str[j] # ","
         IN  <<SubSeq(str, 1, k - 1)>> \o Split(SubSeq(str, k + 1, Len(str)))

\* IntEnvOrDefault(config.DefaultBufferSize, envs...) in any environment
IntEnvOrDefault ==
    /\ conf.call = "none"
    /\ \E environ \in Environs, envs \in NameLists :
         LET r == envOrDefault("int", [ok |-> TRUE, int |-> DefaultBufferSize, str |-> <<>>],
                               FALSE, envs, environ)
         IN  conf' = [conf EXCEPT !.call = "int", !.environ = environ, !.envs = envs,
                                  !.intDefault = DefaultBufferSize, !.intResult = r.val.int,
                                  !.warns = r.warns]
    /\ UNCHANGED <<forwarderVars, wsf>>

\* StringEnvOrDefault(defaultValue, envs...) in any environment, with the
\* default "" or a text
StringEnvOrDefault ==
    /\ conf.call = "none"
    /\ \E environ \in Environs, envs \in NameLists, defaultValue \in {<<>>, <<"d">>} :
         LET r == envOrDefault("string", [ok |-> TRUE, int |-> 0, str |-> defaultValue],
                               defaultValue = <<>>, envs, environ)
         IN  conf' = [conf EXCEPT !.call = "string", !.environ = environ, !.envs = envs,
                                  !.strDefault = defaultValue, !.strResult = r.val.str,
                                  !.warns = r.warns]
    /\ UNCHANGED <<forwarderVars, wsf>>

\* LoadConfig: logBackends := StringEnvOrDefault("tsuru,syslog", "LOG_BACKENDS")
\* and Config.LogBackends is its Split, or nil when it is empty
LoadConfig ==
    /\ conf.call = "none"
    /\ \E environ \in Environs :
         LET defaultValue == <<"tsuru", ",", "syslog">>
             r == envOrDefault("string", [ok |-> TRUE, int |-> 0, str |-> defaultValue],
                               FALSE, <<3>>, environ)
             logBackends == r.val.str
         IN  conf' = [conf EXCEPT !.call = "load", !.environ = environ, !.envs = <<3>>,
                                  !.strDefault = defaultValue, !.strResult = logBackends,
                                  !.warns = r.warns,
                                  !.LogBackends = IF logBackends # <<>> THEN Split(logBackends)
                                                  ELSE <<>>,
                                  !.isNil = (logBackends = <<>>)]
    /\ UNCHANGED <<forwarderVars, wsf>>

ConfigNext ==
    \/ IntEnvOrDefault
    \/ StringEnvOrDefault
    \/ LoadConfig

ConfigSpec == WsInit /\ [][ConfigNext]_vars

(***************************************************************************)
(* Claims about sendMessage, the sink channels and the drop diagnostic     *)
(***************************************************************************)
\* producer p is inside sendMessage
InCall(p) == ppc[p] # "idle"

\* the next step of producer p, wherever it is in sendMessage
ProducerStep(p) == SendToSink(p) \/ SendNotify(p) \/ SendReset(p)

\* producer p moves in this step
Moves(p) == ppc'[p] # ppc[p] \/ pidx'[p] # pidx[p]

\* steps sendMessage still has to take, at most
StepsLeft(pc, idx, n) ==
    IF pc = "idle" THEN 0
    ELSE 3 * (n - idx) + (IF pc = "send" THEN 3 ELSE IF pc = "notify" THEN 2 ELSE 1)

\* the channel of full capacity a producer is about to try
FacesFullChannel(p) ==
    ppc[p] = "send" /\ Len(msgChans[pidx[p]]) >= bufferSize

\* messages dropped so far: each one left its buffer behind
Dropped == Cardinality({b \in BufIds : bufferPool[b] = "gone"})

\* C3: a producer inside sendMessage can always take its next step,
\* whatever the channels hold and whatever the workers and the other
\* producers do, and every step brings it closer to returning: it never
\* waits for room on a channel
C3_SubmissionNeverBlocks ==
    /\ [](\A p \in Producers : InCall(p) => ENABLED ProducerStep(p))
    /\ [][\A p \in Producers :
            (InCall(p) /\ Moves(p)) =>
                StepsLeft(ppc'[p], pidx'[p], Len(msgChans))
                  < StepsLeft(ppc[p], pidx[p], Len(msgChans))]_vars

\* a producer has found a channel full, with the worker not reading, and
\* has gone on to the drop path
C3_Witness ==
    \E p \in Producers :
        /\ ppc[p] = "notify"
        /\ Len(msgChans[pidx[p]]) = bufferSize
        /\ wpc[pidx[p]] # "recv"

\* what one pass of the loop does to the channels: one copy of the
\* rendered line at the end of channel i, or nothing at all and the drop path
OneCopyOrDropPath(p) ==
    LET i == pidx[p]
    IN  /\ \A s \in Sinks : s # i => msgChans'[s] = msgChans[s]
        /\ \/ /\ Len(msgChans'[i]) = Len(msgChans[i]) + 1
              /\ SubSeq(msgChans'[i], 1, Len(msgChans[i])) = msgChans[i]
              /\ msgChans'[i][Len(msgChans'[i])].buffer = pmsg[p].buffer
              /\ ppc'[p] # "notify"
              /\ errorLog' = errorLog
           \/ /\ msgChans'[i] = msgChans[i]
              /\ ppc'[p] = "notify"

C5_WritesInChannelOrder ==
    [][\A s \in Sinks :
         lastWritten'[s] # lastWritten[s] => lastWritten'[s] > lastWritten[s]]_vars

\* two messages that were queued together on one channel have both been written
C5_Witness ==
    \E s \in Sinks : bufferSize = 2 /\ lastWritten[s] = 2

\* C6: every drop diagnostic but the first comes at least a minute after
\* the one before it
C6_NoticesAMinuteApart ==
    \A i \in 2..Len(errorLog) : errorLog[i].elapsed >= Minute

\* two diagnostics were logged
C6_Witness == Len(errorLog) >= 2

C8_DropIsReported ==
    (Dropped > 0 /\ \A p \in Producers : ppc[p] # "notify") => errorLog # <<>>

\* C9: a submission that finds its channel full leaves every channel as it
\* was, and the buffer it lets go of is the one it was submitting
C9_FullChannelKeepsQueue ==
    [][\A p \in Producers :
         (FacesFullChannel(p) /\ Moves(p)) =>
             /\ msgChans' = msgChans
             /\ ppc'[p] = "notify"]_vars

\* a producer dropped its message at a full channel of two, which still
\* holds the two messages queued before, in their order
C9_Witness ==
    \E p \in Producers :
        /\ ppc[p] = "notify"
        /\ bufferSize = 2
        /\ Len(msgChans[pidx[p]]) = 2
        /\ msgChans[pidx[p]][1].seq = 1
        /\ msgChans[pidx[p]][2].seq = 2
        /\ Dropped > 0

\* C10: no buffer taken from the pool is let go of without Put, and none
\* is Put twice
C10_EveryBufferReturnedOnce ==
    /\ ~doublePut
    /\ \A b \in BufIds : bufferPool[b] # "gone"

(***************************************************************************)
(* Claims about buffers, start-up, stop and reconnection                   *)
(***************************************************************************)
\* the places that hold a message for a sink: the slots of its channel, and
\* its worker while it processes one
Slots == {<<s, k>> : s \in Sinks, k \in 0..bufferSize}

\* the buffer held at a place, 0 if the place is empty (slot 0 is the worker)
HeldAt(sl) ==
    IF sl[2] = 0 THEN cur[sl[1]].id
    ELSE IF sl[2] <= Len(msgChans[sl[1]]) THEN msgChans[sl[1]][sl[2]].id ELSE 0

\* C11: a buffer that is on a channel or with a worker is there once, over
\* all sinks; it is checked out of the pool; and the renderer that still
\* works on a rendered buffer has not handed it to any sink
C11_OneOwnerPerBuffer ==
    /\ \A a, b \in Slots : (a # b /\ HeldAt(a) # 0) => HeldAt(a) # HeldAt(b)
    /\ \A a \in Slots : HeldAt(a) # 0 => bufferPool[HeldAt(a)] = "out"
    /\ \A p \in Producers, a \in Slots : pmsg[p].id # 0 => HeldAt(a) # pmsg[p].id

\* one record has fanned out: the two workers process their messages of
\* the same line at the same time, each in a buffer of its own
C11_Witness ==
    /\ Len(msgChans) = 2
    /\ wpc[1] = "split" /\ wpc[2] = "split"
    /\ cur[1].buffer = cur[2].buffer
    /\ cur[1].id # cur[2].id

\* the calls of net.DialTimeout that failed
FailedDials == {k \in 1..Len(dials) : ~dials[k].ok}

\* C12: the addresses are dialled in the order of the configuration, each
\* once; a dial that fails is the last one made, and initialize() returns
\* the error of that dial as connect() made it
C12_FirstDialErrorUnchanged ==
    /\ \A k \in 1..Len(dials) : dials[k].addr >= k
    /\ \A k \in 1..(Len(dials) - 1) : dials[k].addr < dials[k + 1].addr
    /\ \A k \in FailedDials :
          /\ k = Len(dials)
          /\ initPc = "returned"
          /\ initErr.text = "[log forwarder] unable to connect to"
          /\ initErr.url = dials[k].addr
          /\ initErr.cause \in DialOutcomes(addresses[dials[k].addr].scheme)

\* the second of three addresses could not be dialled: initialize() has
\* returned its error and the third was never dialled
C12_Witness ==
    /\ Len(addresses) = 3
    /\ Len(dials) = 2
    /\ dials[1].ok /\ ~dials[2].ok
    /\ initPc = "returned"
    /\ initErr # NoError

\* C13: when initialize() has returned an error, no worker runs and no
\* connection is open
C13_FailedStartLeavesNothing ==
    (initPc = "returned" /\ initErr # NoError) =>
        \A s \in Sinks : wpc[s] = "done" /\ conn[s] = "closed"

\* C14: a sink is only ever created for a tcp or a udp address, and only a
\* udp sink has a message limit
C14_OnlyTcpOrUdp ==
    \A s \in Sinks :
        /\ url[s] \in {"tcp", "udp"}
        /\ url[s] # "udp" => messageLimit[s] = 0

\* C15: stop() closes the quit channel of every worker at once, none left
\* out, and once it has, every worker ends, whatever it was doing and
\* whatever its channel still holds
C15_StopEndsEveryWorker ==
    /\ []((\E s \in Sinks : quitChans[s]) => \A s \in Sinks : quitChans[s])
    /\ (\E s \in Sinks : quitChans[s]) ~> (\A s \in Sinks : wpc[s] = "done")

\* both workers have ended after stop(), one of them with a message still
\* on its channel
C15_Witness ==
    /\ Len(msgChans) = 2
    /\ \A s \in Sinks : quitChans[s] /\ wpc[s] = "done"
    /\ \E s \in Sinks : msgChans[s] # <<>>

\* the last writePart of the worker of sink s failed
WriteFailed(s) == wout[s] \in {"deadline", "error", "short"}

IntervalEnds == wsf.state = "Connected" /\ wsf.ping # 0 /\ wsf'.expired # wsf.expired

\* C17: when the interval of a ping ends on a connected session and no pong
\* with the ping's payload has come, the session is closed for the heartbeat
\* and one line 'no pong response in <duration>' is logged, no later than two
\* intervals after the ping; no line is logged at any other time; the closed
\* session is then dialled again unless a stop was requested
C17_MissedPongOneLineAndReconnect ==
    /\ [][(IntervalEnds /\ wsf.ping \notin wsf.answered) =>
             /\ Len(wsf'.lines) = Len(wsf.lines) + 1
             /\ SubSeq(wsf'.lines, 1, Len(wsf.lines)) = wsf.lines
             /\ wsf'.lines[Len(wsf'.lines)] <= 2
             /\ wsf'.state = "Closing"
             /\ wsf'.cause = "heartbeat"]_vars
    /\ [][wsf'.lines # wsf.lines => (IntervalEnds /\ wsf.ping \notin wsf.answered)]_vars
    /\ ((wsf.state = "Closing" /\ wsf.cause = "heartbeat") ~> (wsf.state = "Dialing" \/ wsf.stop))

\* a ping went without its pong, the line was logged once, and the forwarder
\* has a new session on which it pings again
C17_Witness ==
    /\ Len(wsf.lines) = 1
    /\ wsf.state = "Connected"
    /\ wsf.ping # 0
    /\ ~wsf.stop

\* C18: as long as every ping whose interval has ended was answered in time
\* by a pong with its payload, no 'no pong response' line has been logged and
\* no session was closed by the heartbeat
C18_HealthySessionNeverLogs ==
    (wsf.expired \subseteq wsf.answered) => (wsf.lines = <<>> /\ wsf.cause # "heartbeat")

\* two pings were answered in time, a record was sent, and the forwarder was
\* stopped
C18_Witness ==
    /\ wsf.expired = {1, 2}
    /\ wsf.expired \subseteq wsf.answered
    /\ wsf.sends > 0
    /\ wsf.stop
    /\ wsf.state = "Disconnected"

\* the steps of the session's state machine
WsEdges ==
    {<<"Disconnected", "Dialing">>, <<"Dialing", "Connected">>, <<"Connected", "Closing">>,
     <<"Closing", "Disconnected">>}

\* C19: the session changes state only along Disconnected -> Dialing ->
\* Connected -> Closing -> Disconnected; pings are sent and pongs are missed
\* only on a connected session; a session is closed for a send error, a
\* heartbeat failure or a stop, and a stop request closes a connected
\* session; without a stop request the forwarder can always dial again when
\* it is disconnected, and does
C19_SessionStateMachine ==
    /\ [][wsf'.state # wsf.state => <<wsf.state, wsf'.state>> \in WsEdges]_vars
    /\ [][(wsf'.pings # wsf.pings \/ wsf'.lines # wsf.lines) => wsf.state = "Connected"]_vars
    /\ [](wsf.state = "Closing" => wsf.cause \in {"send", "heartbeat", "stop"})
    /\ []((wsf.state = "Disconnected" /\ ~ENABLED WsDial) => wsf.stop)
    /\ ((wsf.stop /\ wsf.state = "Connected") ~> wsf.state = "Closing")
    /\ ((wsf.state = "Disconnected" /\ ~wsf.stop) ~> (wsf.state = "Dialing" \/ wsf.stop))

\* the forwarder lost a session to a missed pong, dialled again, sent a
\* record and was then stopped: it is disconnected for good
C19_Witness ==
    /\ wsf.state = "Disconnected"
    /\ wsf.stop
    /\ wsf.cause = "stop"
    /\ wsf.sends > 0
    /\ wsf.lines # <<>>

\* the record has no identity: no container id in its tag, or none that the
\* runtime resolves to an application and a process
Unresolved(rec) == rec.parts.container = <<>> \/ rec.lookup \in {"error", "noenv"}

\* the messages that are in a producer's hands, on a channel or with a worker
MessagesInFlight ==
    {pmsg[p] : p \in Producers} \cup {cur[s] : s \in Sinks}
      \cup UNION {{msgChans[s][i] : i \in DOMAIN msgChans[s]} : s \in Sinks}

\* C20: no message rendered from a record with an unresolved container id is
\* with a producer, on a syslog sink channel or with a sink worker, and no
\* such record was handed to the websocket backend
C20_UnresolvedNeverForwarded ==
    \A rec \in Arrivals :
        Unresolved(rec) =>
            /\ \A m \in MessagesInFlight : m.buffer # Render(rec.parts, backend).buffer
            /\ \A i \in DOMAIN wsf.queue : wsf.queue[i] # rec.parts.container

\* a record was handled without sendMessage being called (no buffer was taken
\* from the pool), and the record after it was forwarded to both backends
C20_Witness ==
    /\ nrec = 0
    /\ Len(wsf.queue) = 1
    /\ \A s \in Sinks : nsent[s] = 1

\* C21: splitParts ends for every message and limit: it never stops on an
\* out-of-range slice, and it writes at most one buffer per byte of content
\* and one more
C21_SplitPartsTerminates ==
    \A s \in Sinks :
        /\ wpc[s] # "panic"
        /\ Len(written[s]) <= (cur[s].contentIdx - cur[s].headerIdx) + 1

\* message m is the rendering of the record parts: the offsets are in order
\* and inside the buffer, and they cut it into the header with the prefix
\* at its end, the content, and the suffix with one newline
CutsAsRendered(m, parts, cfg) ==
    /\ 0 < m.headerIdx
    /\ m.headerIdx <= m.contentIdx
    /\ m.contentIdx < Len(m.buffer)
    /\ SubSeq(m.buffer, m.headerIdx + 1, m.contentIdx) = parts.content
    /\ SubSeq(m.buffer, 1, m.headerIdx) = RenderHeader(parts, cfg)
    /\ SubSeq(m.buffer, m.headerIdx - Len(cfg.syslogExtraStart) + 1, m.headerIdx)
         = cfg.syslogExtraStart
    /\ SubSeq(m.buffer, m.contentIdx + 1, Len(m.buffer)) = cfg.syslogExtraEnd \o <<"\n">>

\* producer p puts a message on the channel of sink i in this step
Enqueues(p, i) ==
    /\ ppc[p] = "send"
    /\ pidx[p] = i
    /\ (ppc'[p] # ppc[p] \/ pidx'[p] # pidx[p])
    /\ Len(msgChans'[i]) = Len(msgChans[i]) + 1

\* C22: every message on a sink channel has 0 < headerIdx <= contentIdx <
\* len(buffer) and is cut by the two offsets into the rendered header with
\* the prefix, the record's content, and the suffix with one newline; the
\* message a call puts on any sink has the bytes and offsets it rendered
C22_MessagesCutAsRendered ==
    /\ [](\A s \in Sinks : \A i \in DOMAIN msgChans[s] :
            \E parts \in AnyRecords : CutsAsRendered(msgChans[s][i], parts, backend))
    /\ [][\A p \in Producers : \A i \in Sinks :
            Enqueues(p, i) =>
                LET m == msgChans'[i][Len(msgChans'[i])]
                IN  /\ m.buffer = pmsg[p].buffer
                    /\ m.headerIdx = pmsg[p].headerIdx
                    /\ m.contentIdx = pmsg[p].contentIdx]_vars

\* with a prefix and a suffix configured, one call has put a record with
\* empty content on both sinks, the copy and the original
C22_Witness ==
    /\ backend.syslogExtraStart # <<>>
    /\ backend.syslogExtraEnd # <<>>
    /\ \A s \in Sinks :
         /\ msgChans[s] # <<>>
         /\ msgChans[s][1].buffer = msgChans[1][1].buffer
         /\ msgChans[s][1].headerIdx = msgChans[s][1].contentIdx
    /\ msgChans[1][1].id # msgChans[2][1].id

\* no limit applies to the message the worker of sink s holds, or it is
\* within the limit
NoLimitOrWithin(s) == messageLimit[s] <= 0 \/ Len(cur[s].buffer) <= messageLimit[s]

\* C23: when no limit applies or the whole message is within the limit,
\* splitParts makes one writePart call and returns: the call is given the
\* original buffer, unmodified, which is the one buffer written (none when
\* the deadline cannot be set), and no buffer is taken from the pool
C23_FastPathOneWrite ==
    /\ [](\A s \in Sinks :
            (wpc[s] = "split" /\ NoLimitOrWithin(s)) =>
                (written[s] = <<>> /\ wout[s] = "none" /\ array[s] = cur[s].buffer))
    /\ [][\A s \in Sinks :
            (wpc[s] = "split" /\ NoLimitOrWithin(s) /\ wpc'[s] # "split") =>
                /\ wpc'[s] = "put"
                /\ wout'[s] \in WriteOutcomes
                /\ written'[s] = IF wout'[s] = "deadline" THEN <<>> ELSE <<cur[s].buffer>>
                /\ array'[s] = cur[s].buffer
                /\ bufferPool' = bufferPool]_vars
    /\ [](\A s \in Sinks :
            (wpc[s] = "split" /\ NoLimitOrWithin(s)) => ENABLED SplitFast(s))

\* a message exactly as long as the limit of a udp sink went out in one write
C23_Witness ==
    \E s \in Sinks :
        /\ wpc[s] = "put"
        /\ messageLimit[s] > 0
        /\ Len(cur[s].buffer) = messageLimit[s]
        /\ written[s] = <<cur[s].buffer>>
        /\ wout[s] = "ok"

\* C24: in a call over the sinks, the record goes on the channel of every
\* sink that has room when it is tried, whatever the other channels hold
\* and whatever their workers do; a drop at a full channel changes no other
\* channel; after a sink was tried, with or without a drop, the call goes
\* on to the next sink and ends after the last; the call can always take
\* its next step
C24_SinksIndependentOnFanOut ==
    /\ [](\A p \in Producers : ppc[p] # "idle" => ENABLED (SendToSink(p) \/ SendNotify(p) \/ SendReset(p)))
    /\ [][\A p \in Producers :
            LET i == pidx[p]
            IN  /\ (ppc[p] = "send" /\ Moves(p)) =>
                      /\ \A s \in Sinks : s # i => msgChans'[s] = msgChans[s]
                      /\ IF Len(msgChans[i]) < bufferSize
                         THEN /\ Len(msgChans'[i]) = Len(msgChans[i]) + 1
                              /\ msgChans'[i][Len(msgChans'[i])].buffer = pmsg[p].buffer
                         ELSE msgChans'[i] = msgChans[i]
                /\ (ppc[p] \in {"notify", "reset"} /\ Moves(p)) => msgChans' = msgChans
                /\ (ppc[p] # "idle" /\ Moves(p) /\ ppc'[p] \notin {"notify", "reset"}) =>
                      IF i < Len(msgChans)
                      THEN ppc'[p] = "send" /\ pidx'[p] = i + 1
                      ELSE ppc'[p] = "idle"]_vars

\* the channel of the first sink is full and its worker is not reading,
\* and the second sink has been given a record that the first one dropped
C24_Witness ==
    /\ Len(msgChans[1]) = bufferSize
    /\ wpc[1] = "recv"
    /\ nsent[2] > nsent[1]
    /\ \A p \in Producers : ppc[p] = "idle"

\* C25: a short write and a deadline that cannot be set are errors of
\* writePart, as is a failed write; after a failed write splitParts returns
\* the error without writing another fragment; at that point every fragment
\* buffer is back in the pool, and process then puts the message's own
\* buffer back as well
C25_WriteErrorsEndTheMessage ==
    /\ [](\A s \in Sinks : wout[s] \in {"short", "deadline", "error"} => (werr[s] /\ wpc[s] = "put"))
    /\ [](\A s \in Sinks :
            wpc[s] = "put" => \A b \in BufIds : bufferPool[b] = "out" => b = cur[s].id)
    /\ [][\A s \in Sinks :
            /\ (werr[s] /\ wpc[s] = "put") => (written'[s] = <<>> \/ written'[s] = written[s])
            /\ (wpc[s] = "put" /\ wpc'[s] # "put") =>
                   /\ bufferPool[cur[s].id] = "out"
                   /\ bufferPool'[cur[s].id] = "pool"
                   /\ wpc'[s] = "recv"]_vars

\* the second fragment of a split message was written short: splitParts
\* has returned and only the message's own buffer is still out
C25_Witness ==
    \E s \in Sinks :
        /\ wpc[s] = "put"
        /\ wout[s] = "short"
        /\ Len(written[s]) = 2
        /\ written[s][1] # cur[s].buffer
        /\ bufferPool[cur[s].id] = "out"

\* sendMessage in any sequence of calls: with no channel it returns at once,
\* taking no buffer and leaving the timer and the diagnostic alone; a call
\* that goes further finds the pool and the timer made by initialize() and
\* indexes an existing channel; once quit channels are closed a call still
\* puts the record on a channel with room and drops it at a full one; and a
\* call in progress can always take its next step
SendMessageNeverFaults ==
    /\ [](\A p \in Producers :
            ppc[p] # "idle" =>
                /\ initPc = "returned" /\ Len(addresses) # 0
                /\ pidx[p] \in DOMAIN msgChans
                /\ Running => ENABLED ProducerStep(p))
    /\ [][(nrec' # nrec /\ Len(msgChans) = 0) =>
             /\ bufferPool' = bufferPool
             /\ timerVars' = timerVars
             /\ ppc' = ppc
             /\ msgChans' = msgChans]_vars
    /\ [][\A p \in Producers :
            ((\E s \in Sinks : quitChans[s]) /\ ppc[p] = "send" /\ Moves(p)) =>
                LET i == pidx[p]
                IN  IF Len(msgChans[i]) < bufferSize
                    THEN /\ Len(msgChans'[i]) = Len(msgChans[i]) + 1
                         /\ ppc'[p] # "notify"
                    ELSE /\ msgChans' = msgChans
                         /\ ppc'[p] = "notify"]_vars

\* a quit channel is closed in this step
ClosesQuit == \E s \in Sinks : quitChans'[s] # quitChans[s]

\* a call of stop() shows in this step: it closes quit channels, or it panics
StopCalled == ClosesQuit \/ fault' # fault

\* C26 as stated: sendMessage never faults in any sequence of calls, and
\* every call of stop closes each quit channel exactly once and no message
\* channel
C26_EveryStopClosesEachOnce ==
    /\ SendMessageNeverFaults
    /\ [][StopCalled =>
             /\ \A s \in Sinks : ~quitChans[s] /\ quitChans'[s]
             /\ fault' = "none"
             /\ msgChans' = msgChans]_vars

\* C26 amended: sendMessage never faults in any sequence of calls; the
\* first call of stop closes each quit channel exactly once and no message
\* channel; a later call of stop on a backend with sinks closes nothing and
\* panics, and this is the only panic of a call
C26_FirstStopClosesEachOnce ==
    /\ SendMessageNeverFaults
    /\ [][ClosesQuit =>
             /\ \A s \in Sinks : ~quitChans[s] /\ quitChans'[s]
             /\ fault' = "none"
             /\ msgChans' = msgChans]_vars
    /\ [][fault' # fault =>
             /\ \E s \in Sinks : quitChans[s]
             /\ quitChans' = quitChans
             /\ msgChans' = msgChans
             /\ \A p \in Producers : ppc'[p] = ppc[p]]_vars

\* after stop, with both workers gone, one sink's channel is full and a call
\* is dropping its record there, having put it on the other sink
C26_Witness ==
    /\ fault = "none"
    /\ Len(url) = 2
    /\ \A s \in Sinks : quitChans[s] /\ wpc[s] = "done"
    /\ \E p \in Producers :
         /\ ppc[p] = "notify"
         /\ pidx[p] = 2
         /\ Len(msgChans[2]) = bufferSize
         /\ msgChans[1] # <<>>

(***************************************************************************)
(* splitParts on its own: one sink, one message of any shape on its        *)
(* channel, any interface MTU                                              *)
(***************************************************************************)
SplitInit ==
    \E iface \in IfaceReadings, scheme \in {"udp", "tcp"}, appLen \in 1..MaxAppName,
       contentLen \in 0..MaxContent, extraEndLen \in 0..MaxExtraEnd :
        /\ mtu = ReadMTU(iface)
        /\ backend = Config(extraEndLen)
        /\ url = <<scheme>>
        /\ bufferSize = 1
        /\ messageLimit = <<connect(scheme, mtu, 0)>>
        /\ msgChans = <<  <<[id |-> 1, seq |-> 1] @@ Render(Parts(appLen, contentLen), backend)>>  >>
        /\ quitChans = <<FALSE>>
        /\ bufferPool = [b \in BufIds |-> IF b = 1 THEN "out" ELSE "new"]
        /\ doublePut = FALSE
        /\ timerC = 0
        /\ timerLeft = 0
        /\ elapsed = Minute
        /\ errorLog = <<>>
        /\ ppc = <<>>
        /\ pidx = <<>>
        /\ pmsg = <<>>
        /\ nrec = 0
        /\ nsent = <<1>>
        /\ wpc = <<"recv">>
        /\ cur = <<NoMsg>>
        /\ array = << <<>> >>
        /\ contentOff = <<0>>
        /\ werr = <<FALSE>>
        /\ wout = <<"none">>
        /\ written = << <<>> >>
        /\ lastWritten = <<0>>
        /\ conn = <<"open">>
        /\ addresses = <<[scheme |-> scheme, parses |-> TRUE]>>
        /\ initPc = "returned"
        /\ initIdx = 2
        /\ initErr = NoError
        /\ dials = <<[addr |-> 1, ok |-> TRUE]>>
        /\ wsf = WsIdle
        /\ fault = "none"
        /\ conf = ConfIdle

SplitNext ==
    \/ \E s \in Sinks : WorkerRecv(s)
    \/ \E s \in Sinks : SplitFast(s)
    \/ \E s \in Sinks : SplitLoop(s)
    \/ \E s \in Sinks : SplitRemainder(s)
    \/ \E s \in Sinks : ProcessReturn(s)

SplitSpec == SplitInit /\ [][SplitNext]_vars

(***************************************************************************)
(* Claims about splitParts                                                 *)
(***************************************************************************)
\* the three regions of the message a worker received
headerOf(b) == SubSeq(b.buffer, 1, b.headerIdx)

contentOf(b) == SubSeq(b.buffer, b.headerIdx + 1, b.contentIdx)

trailerOf(b) == SubSeq(b.buffer, b.contentIdx + 1, Len(b.buffer))

\* a worker of a udp sink that took the slow path of splitParts
Splitting(s) ==
    /\ url[s] = "udp"
    /\ cur[s] # NoMsg
    /\ ~fits(messageLimit[s], Len(cur[s].buffer))

\* C1 as stated: on a udp sink every buffer handed to conn.Write is at most
\* mtu - 100 bytes long, whatever the MTU of the interface
C1_EveryWriteWithinLimit ==
    \A s \in Sinks :
        url[s] = "udp" =>
            \A i \in 1..Len(written[s]) : Len(written[s][i]) <= mtu - udpHeaderSz

\* C1 amended: the bound holds whenever the MTU is above the 100-byte
\* reserve; an MTU of 100 or less leaves no positive limit and the whole
\* buffer goes out in one write
C1_WriteWithinLimitAboveReserve ==
    \A s \in Sinks :
        (url[s] = "udp" /\ mtu > udpHeaderSz) =>
            \A i \in 1..Len(written[s]) : Len(written[s][i]) <= mtu - udpHeaderSz

\* a split message whose fragments were written, the first one filling the limit
C1_Witness ==
    \E s \in Sinks :
        /\ Splitting(s)
        /\ mtu > udpHeaderSz
        /\ Len(written[s]) >= 2
        /\ Len(written[s][1]) = mtu - udpHeaderSz

RECURSIVE Concat(_)
Concat(seqs) == IF seqs = <<>> THEN <<>> ELSE Head(seqs) \o Concat(Tail(seqs))

\* write w is header || chunk || trailer of message b
Framed(w, b) ==
    /\ Len(w) >= b.headerIdx + Len(trailerOf(b))
    /\ SubSeq(w, 1, b.headerIdx) = headerOf(b)
    /\ SubSeq(w, Len(w) - Len(trailerOf(b)) + 1, Len(w)) = trailerOf(b)

chunkOf(w, b) == SubSeq(w, b.headerIdx + 1, Len(w) - Len(trailerOf(b)))

\* C2: once splitParts has ended on the slow path with no write error,
\* every write was header || chunk || trailer, every chunk but the last had
\* messageLimit - len(header) - len(trailer) bytes, and the chunks in
\* order make up the original content region
C2_FragmentsCarryContent ==
    \A s \in Sinks :
        (Splitting(s) /\ wpc[s] \in {"put", "panic"} /\ ~werr[s]) =>
            LET b     == cur[s]
                avail == messageLimit[s] - b.headerIdx - Len(trailerOf(b))
                ws    == written[s]
            IN  /\ \A i \in 1..Len(ws) : Framed(ws[i], b)
                /\ \A i \in 1..(Len(ws) - 1) : Len(chunkOf(ws[i], b)) = avail
                /\ Concat([i \in 1..Len(ws) |-> chunkOf(ws[i], b)]) = contentOf(b)

\* the same, for the messages whose header and trailer leave room for content
C2_FragmentsCarryContentWithRoom ==
    \A s \in Sinks :
        (Splitting(s) /\ wpc[s] \in {"put", "panic"} /\ ~werr[s]
           /\ cur[s].headerIdx + Len(trailerOf(cur[s])) < messageLimit[s]) =>
            LET b     == cur[s]
                avail == messageLimit[s] - b.headerIdx - Len(trailerOf(b))
                ws    == written[s]
            IN  /\ wpc[s] = "put"
                /\ \A i \in 1..Len(ws) : Framed(ws[i], b)
                /\ \A i \in 1..(Len(ws) - 1) : Len(chunkOf(ws[i], b)) = avail
                /\ Concat([i \in 1..Len(ws) |-> chunkOf(ws[i], b)]) = contentOf(b)


(***************************************************************************)
(* Claims about package config                                             *)
(***************************************************************************)
\* the integers whose decimal text is among the values looked up
IntRange == (0 - 99)..99

\* strconv.Itoa for the integers of IntRange
Itoa(n) ==
    LET a  == IF n < 0 THEN 0 - n ELSE n
        ds == IF a < 10 THEN <<Digit(a)>> ELSE <<Digit(a \div 10), Digit(a % 10)>>
    IN  IF n < 0 THEN <<"-">> \o ds ELSE ds

\* the value of the name at position i of the call converts
Converts(i) ==
    LET v == conf.environ[conf.envs[i]]
    IN  IF conf.call = "int" THEN \E n \in IntRange : Itoa(n) = v ELSE v # <<>>

\* the positions of the names whose values convert
Converting == {i \in DOMAIN conf.envs : Converts(i)}

\* the first of them in list order
Chosen == CHOOSE i \in Converting : \A j \in Converting : i <= j

\* the call logged that a name other than the first was used
Deprecation == \E k \in DOMAIN conf.warns : conf.warns[k].kind = "deprecated"

\* C27: IntEnvOrDefault and StringEnvOrDefault return the converted value of
\* the first name in list order whose value converts, the default exactly
\* when none does, and log a deprecation warning exactly when the name they
\* chose is not the first of the list.
C27_FirstConvertingNameOrDefault ==
    conf.call \in {"int", "string"} =>
        IF Converting = {}
        THEN /\ conf.call = "int" => conf.intResult = conf.intDefault /\ conf.intDefault = 1000000
             /\ conf.call = "string" => conf.strResult = conf.strDefault
             /\ ~Deprecation
        ELSE LET v == conf.environ[conf.envs[Chosen]]
             IN  /\ conf.call = "int" => Itoa(conf.intResult) = v
                 /\ conf.call = "string" => conf.strResult = v
                 /\ Deprecation <=> Chosen > 1
                 /\ \A k \in DOMAIN conf.warns :
                        conf.warns[k].kind = "deprecated" =>
                            /\ conf.warns[k].env = conf.envs[Chosen]
                            /\ conf.warns[k].use = conf.envs[1]

\* an integer lookup skipped a first name that does not convert, returned
\* the 12 of the second and logged the deprecation
C27_Witness ==
    /\ conf.call = "int"
    /\ Len(conf.envs) = 2
    /\ conf.environ[conf.envs[1]] = <<"x">>
    /\ conf.environ[conf.envs[2]] = <<"1", "2">>
    /\ conf.intResult = 12
    /\ Deprecation

\* C28: after LoadConfig, Config.LogBackends is never nil or empty whatever
\* LOG_BACKENDS holds, and an unset or empty LOG_BACKENDS gives the default
\* list tsuru, syslog.
C28_LogBackendsNeverEmpty ==
    conf.call = "load" =>
        /\ ~conf.isNil
        /\ Len(conf.LogBackends) >= 1
        /\ conf.environ[3] = <<>> => conf.LogBackends = << <<"tsuru">>, <<"syslog">> >>

\* LoadConfig ran with LOG_BACKENDS unset and left the default list
C28_Witness ==
    /\ conf.call = "load"
    /\ conf.environ[3] = <<>>
    /\ ~conf.isNil
    /\ conf.LogBackends = << <<"tsuru">>, <<"syslog">> >>

====
